---------------------------- MODULE Spec2Model ----------------------------
(***************************************************************************)
(* Model of the native dependency resolution and link-directive synthesis  *)
(* of valhalla-rs: the two build drivers src/build.rs (fn main) and        *)
(* src/src_build/android.rs (fn build).                                    *)
(*                                                                         *)
(* Strings are TLA+ strings (sequences of characters); Len, \o and SubSeq  *)
(* act on them.  An Option<T> is a tuple: None is <<>> and Some(v) is      *)
(* <<v>>.  The process environment is a function from the names that are   *)
(* set to their values.  A directory is a set of entry names; the order a  *)
(* listing returns them in is chosen anew by every read_dir call.          *)
(***************************************************************************)
EXTENDS Integers, Sequences, FiniteSets, TLC

VARIABLES
    driver,     \* "main" (src/build.rs) or "build" (src/src_build/android.rs)
    target,     \* the TARGET triple handed in by cargo
    env,        \* process environment: [set names -> values]
    fs,         \* filesystem: [dirs: path -> entry names, files: paths,
                \*              listings: path -> the orders read_dir may list it in]
    db,         \* <dst>/build/compile_commands.json
    pc,         \* position of the driver in its body
    comp,       \* index of the Boost component the loop is at
    loc,        \* the driver's local bindings (boost_lib, lz4_dir, ...)
    includes,   \* valhalla_includes: None until extract_includes returned
    bridge,     \* None until cxx_build compiled the bridge, then Some(includes)
    out,        \* the lines printed so far, each tagged with the section printing it
    run,        \* number of the current run of the driver (re-invocation)
    prev,       \* the lines the previous run printed
    arg,        \* arguments of the helper under test (helper specifications)
    ret         \* its result

vars == <<driver, target, env, fs, db, pc, comp, loc, includes, bridge, out, run, prev, arg, ret>>

----------------------------------------------------------------------------
(* Bounds of the model. *)

MaxEnvVars == 2      \* environment variables set at once in a full run
MaxEntries == 3      \* entries of the directory handed to the Locator
MaxTokens == 3       \* tokens of a compile command
MaxRuns == 2         \* runs of the driver over the same inputs

----------------------------------------------------------------------------
(* Option<T> *)

None == <<>>
Some(v) == <<v>>
IsSome(o) == o # None
Unwrap(o) == o[1]
\* Option::or / or_else
OrElse(o, alt) == IF IsSome(o) THEN o ELSE alt
\* Option::unwrap_or / unwrap_or_else
UnwrapOr(o, d) == IF IsSome(o) THEN Unwrap(o) ELSE d

----------------------------------------------------------------------------
(* str *)

Char(s, i) == SubSeq(s, i, i)

starts_with(s, p) == Len(p) <= Len(s) /\ SubSeq(s, 1, Len(p)) = p

ends_with(s, p) == Len(p) <= Len(s) /\ SubSeq(s, Len(s) - Len(p) + 1, Len(s)) = p

strip_prefix(s, p) ==
    IF starts_with(s, p) THEN Some(SubSeq(s, Len(p) + 1, Len(s))) ELSE None

strip_suffix(s, p) ==
    IF ends_with(s, p) THEN Some(SubSeq(s, 1, Len(s) - Len(p))) ELSE None

contains(s, p) == \E i \in 0..(Len(s) - Len(p)) : SubSeq(s, i + 1, i + Len(p)) = p

\* str::replace for a one-character pattern
RECURSIVE replace(_, _, _)
replace(s, from, to) ==
    IF s = "" THEN ""
    ELSE (IF Char(s, 1) = from THEN to ELSE Char(s, 1)) \o replace(Tail(s), from, to)

\* position of the first occurrence of the character c in s from position i on,
\* Len(s) + 1 when there is none
RECURSIVE IndexFrom(_, _, _)
IndexFrom(s, c, i) ==
    IF i > Len(s) THEN i
    ELSE IF Char(s, i) = c THEN i
    ELSE IndexFrom(s, c, i + 1)

\* str::split on one character: the pieces, empty ones included
RECURSIVE SplitFrom(_, _, _)
SplitFrom(s, sep, i) ==
    LET j == IndexFrom(s, sep, i)
    IN  IF j > Len(s) THEN << SubSeq(s, i, Len(s)) >>
        ELSE << SubSeq(s, i, j - 1) >> \o SplitFrom(s, sep, j + 1)

split(s, sep) == SplitFrom(s, sep, 1)

NonEmpty(piece) == piece # ""

IsWhitespace(c) == c \in {" ", "\t", "\n", "\r"}

\* str::split_whitespace: the maximal runs of non-whitespace characters
RECURSIVE SplitWs(_, _)
SplitWs(s, cur) ==
    IF s = "" THEN (IF cur = "" THEN <<>> ELSE <<cur>>)
    ELSE IF IsWhitespace(Char(s, 1))
         THEN (IF cur = "" THEN <<>> ELSE <<cur>>) \o SplitWs(Tail(s), "")
         ELSE SplitWs(Tail(s), cur \o Char(s, 1))

split_whitespace(s) == SplitWs(s, "")

\* [String]::join
RECURSIVE join(_, _)
join(pieces, sep) ==
    IF pieces = <<>> THEN ""
    ELSE IF Len(pieces) = 1 THEN pieces[1]
    ELSE pieces[1] \o sep \o join(Tail(pieces), sep)

\* position of the last occurrence of the character c in s, 0 when there is none
RECURSIVE LastIndexOf(_, _, _)
LastIndexOf(s, c, i) ==
    IF i = 0 THEN 0
    ELSE IF Char(s, i) = c THEN i
    ELSE LastIndexOf(s, c, i - 1)

----------------------------------------------------------------------------
(* std::path::Path *)

IsAbsolute(p) == starts_with(p, "/")

\* Path::components, the root left out: repeated separators and `.` are dropped
Components(p) == SelectSeq(split(p, "/"), LAMBDA c : c # "" /\ c # ".")

\* the path as the filesystem resolves it (no `..` is resolved)
Normalize(p) == (IF IsAbsolute(p) THEN "/" ELSE "") \o join(Components(p), "/")

\* Path::file_name: the last component, unless the path ends in `..` or has none
file_name(p) ==
    LET cs == Components(p)
    IN  IF cs = <<>> THEN None
        ELSE IF cs[Len(cs)] = ".." THEN None
        ELSE Some(cs[Len(cs)])

\* Path::extension: what follows the last `.` of the file name; None when the
\* file name has no `.` or only a leading one
extension(p) ==
    LET name == file_name(p)
        dot == LastIndexOf(Unwrap(name), ".", Len(Unwrap(name)))
    IN  IF name = None THEN None
        ELSE IF dot <= 1 THEN None
        ELSE Some(SubSeq(Unwrap(name), dot + 1, Len(Unwrap(name))))

\* Path::parent: the path without its last component; None for a root or ""
parent(p) ==
    LET cs == Components(p)
    IN  IF cs = <<>> THEN None
        ELSE Some((IF IsAbsolute(p) THEN "/" ELSE "")
                  \o join(SubSeq(cs, 1, Len(cs) - 1), "/"))

\* Path::join with a relative path
PathJoin(dir, name) ==
    IF dir = "" \/ ends_with(dir, "/") THEN dir \o name ELSE dir \o "/" \o name

\* Path::exists
exists(f, p) == Normalize(p) \in f.files \/ Normalize(p) \in DOMAIN f.dirs

----------------------------------------------------------------------------
(* Helpers of the drivers *)

\* std::env::var(k): Ok(value) when k is set
env_var(e, k) == IF k \in DOMAIN e THEN Some(e[k]) ELSE None

\* a faulty first_env: the last candidate wins
RECURSIVE first_env_last_wins(_, _)
first_env_last_wins(e, names) ==
    IF names = <<>> THEN None
    ELSE LET v == env_var(e, names[Len(names)])
         IN  IF IsSome(v) /\ Unwrap(v) # "" THEN v
             ELSE first_env_last_wins(e, SubSeq(names, 1, Len(names) - 1))

RECURSIVE first_env(_, _)
first_env(e, names) ==
    IF names = <<>> THEN None
    ELSE LET v == env_var(e, names[1])
         IN  IF IsSome(v) /\ Unwrap(v) # "" THEN v
             ELSE first_env(e, Tail(names))

keys(base, triple_us) == << base \o "_" \o triple_us, base >>

dir_of(p) == UnwrapOr(parent(p), p)

\* LibKind (android.rs only): "Static" or "Dylib"
lib_kind(path) ==
    IF extension(path) = Some("a") THEN Some("Static")
    ELSE IF extension(path) = Some("so") THEN Some("Dylib")
    ELSE None

\* a faulty stem_from_lib: the `lib` prefix is stripped where present, not required
stem_from_lib_no_prefix(path) ==
    IF file_name(path) = None THEN None
    ELSE LET fname == Unwrap(file_name(path))
             s == UnwrapOr(strip_prefix(fname, "lib"), fname)
         IN  IF IsSome(strip_suffix(s, ".a")) THEN strip_suffix(s, ".a")
             ELSE IF IsSome(strip_suffix(s, ".so")) THEN strip_suffix(s, ".so")
             ELSE None

stem_from_lib(path) ==
    IF file_name(path) = None THEN None
    ELSE LET fname == Unwrap(file_name(path))
         IN  IF strip_prefix(fname, "lib") = None THEN None
             ELSE LET s == Unwrap(strip_prefix(fname, "lib"))
                  IN  IF IsSome(strip_suffix(s, ".a")) THEN strip_suffix(s, ".a")
                      ELSE IF IsSome(strip_suffix(s, ".so")) THEN strip_suffix(s, ".so")
                      ELSE None


\* the policy of find_lib_with_prefix: build.rs has the default policy only
\* (`best_a.or(best_so)`), android.rs inverts it on ANDROID_PREFER_DYNAMIC=1
prefer_dynamic(d, e) == d = "build" /\ env_var(e, "ANDROID_PREFER_DYNAMIC") = Some("1")

\* fs::read_dir(dir): the entries' names, in the order `order` of this call; None
\* when the directory cannot be read
read_dir(f, dir, order) == IF Normalize(dir) \in DOMAIN f.dirs THEN Some(order) ELSE None

\* every order a listing of the entries S may come in
RECURSIVE Orderings(_)
Orderings(S) ==
    IF S = {} THEN {<<>>}
    ELSE UNION {{<<x>> \o o : o \in Orderings(S \ {x})} : x \in S}

\* the orders read_dir may list `dir` in (one empty order when it is unreadable)
Listings(f, dir) ==
    IF Normalize(dir) \in DOMAIN f.dirs THEN f.listings[Normalize(dir)] ELSE {<<>>}

\* the loop of find_lib_with_prefix over the entries: <<a, so>>, each the last
\* matching entry of its extension
RECURSIVE ScanDir(_, _, _, _, _)
ScanDir(entries, dir, prefix, a, so) ==
    IF entries = <<>> THEN <<a, so>>
    ELSE LET p == PathJoin(dir, entries[1])
             name == UnwrapOr(file_name(p), "")
             ext == extension(p)
         IN  IF ~starts_with(name, "lib" \o prefix)
             THEN ScanDir(Tail(entries), dir, prefix, a, so)
             ELSE IF ext = Some("a")
             THEN ScanDir(Tail(entries), dir, prefix, Some(p), so)
             ELSE IF ext = Some("so")
             THEN ScanDir(Tail(entries), dir, prefix, a, Some(p))
             ELSE ScanDir(Tail(entries), dir, prefix, a, so)

\* a faulty find_lib_with_prefix: the dynamic artifact is always preferred
find_lib_always_dynamic(d, e, listing, dir, prefix) ==
    LET found == ScanDir(UnwrapOr(listing, <<>>), dir, prefix, None, None)
    IN  OrElse(found[2], found[1])

find_lib_with_prefix(d, e, listing, dir, prefix) ==
    LET found == ScanDir(UnwrapOr(listing, <<>>), dir, prefix, None, None)
    IN  IF prefer_dynamic(d, e) THEN OrElse(found[2], found[1])
        ELSE OrElse(found[1], found[2])

\* print_link_for (android.rs): the lines it prints, none when the path has no
\* kind or no stem
print_link_for(path) ==
    IF IsSome(lib_kind(path)) /\ IsSome(stem_from_lib(path))
    THEN IF Unwrap(lib_kind(path)) = "Static"
         THEN << "cargo:rustc-link-lib=static=" \o Unwrap(stem_from_lib(path)) >>
         ELSE << "cargo:rustc-link-lib=" \o Unwrap(stem_from_lib(path)) >>
    ELSE <<>>

add_rerun_env(var) == "cargo:rerun-if-env-changed=" \o var

----------------------------------------------------------------------------
(* extract_includes *)

\* a call that returns v, and one that panics with msg
Ok(v) == [ok |-> TRUE, val |-> v]
Panic(msg) == [ok |-> FALSE, val |-> msg]

\* Iterator::find: the first record whose file ends with cpp_source
RECURSIVE FindCommand(_, _)
FindCommand(commands, cpp_source) ==
    IF commands = <<>> THEN None
    ELSE IF ends_with(commands[1].file, cpp_source) THEN Some(commands[1])
    ELSE FindCommand(Tail(commands), cpp_source)

\* a faulty ScanArgs: the token after `-isystem` is consumed with it
RECURSIVE ScanArgs_consume(_, _)
ScanArgs_consume(args, i) ==
    IF i > Len(args) THEN <<>>
    ELSE IF IsSome(strip_prefix(args[i], "-I"))
    THEN <<Unwrap(strip_prefix(args[i], "-I"))>> \o ScanArgs_consume(args, i + 1)
    ELSE IF args[i] = "-isystem" /\ i + 1 <= Len(args)
    THEN <<args[i + 1]>> \o ScanArgs_consume(args, i + 2)
    ELSE ScanArgs_consume(args, i + 1)

\* the loop `for i in 0..args.len()`, from index i (1-based) on
RECURSIVE ScanArgs(_, _)
ScanArgs(args, i) ==
    IF i > Len(args) THEN <<>>
    ELSE IF IsSome(strip_prefix(args[i], "-I"))
    THEN <<Unwrap(strip_prefix(args[i], "-I"))>> \o ScanArgs(args, i + 1)
    ELSE IF args[i] = "-isystem" /\ i + 1 <= Len(args)
    THEN <<args[i + 1]>> \o ScanArgs(args, i + 1)
    ELSE ScanArgs(args, i + 1)

\* a faulty extract_includes: no include directory, and no panic, where the
\* reference source has no record
extract_includes_no_abort(database, cpp_source) ==
    IF database.state = "absent" THEN Panic("compile_commands.json not found")
    ELSE IF database.state = "unparsable" THEN Panic("parse compile_commands.json")
    ELSE IF FindCommand(database.commands, cpp_source) = None
    THEN Ok(<<>>)
    ELSE LET command == Unwrap(FindCommand(database.commands, cpp_source))
         IN  Ok(ScanArgs(split_whitespace(command.command), 1))

extract_includes(database, cpp_source) ==
    IF database.state = "absent" THEN Panic("compile_commands.json not found")
    ELSE IF database.state = "unparsable" THEN Panic("parse compile_commands.json")
    ELSE IF FindCommand(database.commands, cpp_source) = None
    THEN Panic("reference cpp not found in compile_commands.json")
    ELSE LET command == Unwrap(FindCommand(database.commands, cpp_source))
         IN  Ok(ScanArgs(split_whitespace(command.command), 1))

----------------------------------------------------------------------------
(* The driver: fn main of build.rs (driver "main") and fn build of android.rs *)
(* (driver "build")                                                          *)

\* the build output directory cmake::Config::build returns
dst == "/out"

components == <<"filesystem", "system", "regex", "date_time", "chrono", "thread">>

\* build_type, from PROFILE and DEBUG
build_type(e) ==
    IF env_var(e, "PROFILE") = Some("debug") THEN "Debug"
    ELSE IF env_var(e, "PROFILE") = Some("release") /\ env_var(e, "DEBUG") = Some("true")
    THEN "RelWithDebInfo"
    ELSE "Release"

\* a faulty binding of the environment: an absent LZ4_DIR falls back on Protobuf_DIR
Locals_shared_root(d, t, e) ==
    LET triple_us == replace(t, "-", "_")
        boost_root == first_env(e, keys("Boost_ROOT", triple_us))
        pb_dir == first_env(e, keys("Protobuf_DIR", triple_us))
        lz4_dir == OrElse(first_env(e, keys("LZ4_DIR", triple_us)), pb_dir)
        prefix_env == UnwrapOr(OrElse(env_var(e, "CMAKE_PREFIX_PATH_" \o triple_us),
                                      env_var(e, "CMAKE_PREFIX_PATH")), "")
    IN  [ triple_us |-> triple_us,
          build_type |-> build_type(e),
          boost_root |-> boost_root,
          boost_inc |-> first_env(e, keys("Boost_INCLUDE_DIR", triple_us)),
          boost_lib |-> first_env(e, keys("Boost_LIBRARY_DIR", triple_us)),
          pb_dir |-> pb_dir,
          pb_inc |-> first_env(e, keys("Protobuf_INCLUDE_DIR", triple_us)),
          pb_lib |-> OrElse(first_env(e, keys("Protobuf_LIBRARY", triple_us)),
                            first_env(e, keys("Protobuf_LIBRARIES", triple_us))),
          pb_protoc |-> first_env(e, <<"Protobuf_PROTOC_EXECUTABLE", "PROTOC">>),
          \* build.rs has no such binding: it writes the literal "protobuf-lite"
          pb_component |->
              IF d = "main" THEN "protobuf-lite"
              ELSE UnwrapOr(env_var(e, "PROTOBUF_COMPONENT"),
                            IF contains(t, "android") THEN "protobuf-lite" ELSE "protobuf"),
          lz4_dir |-> lz4_dir,
          lz4_inc |-> OrElse(first_env(e, keys("LZ4_INCLUDE_DIR", triple_us)),
                             IF IsSome(lz4_dir) THEN Some(Unwrap(lz4_dir) \o "/include")
                             ELSE None),
          lz4_lib |-> OrElse(first_env(e, keys("LZ4_LIBRARY", triple_us)),
                             IF IsSome(lz4_dir) THEN Some(Unwrap(lz4_dir) \o "/lib/liblz4.a")
                             ELSE None),
          cmake_prefix |-> SelectSeq(split(prefix_env, ":"), NonEmpty)
                           \o (IF IsSome(boost_root) THEN boost_root ELSE <<>>)
                           \o (IF IsSome(pb_dir) THEN pb_dir ELSE <<>>) ]

\* the bindings made from the environment before the CMake build
Locals(d, t, e) ==
    LET triple_us == replace(t, "-", "_")
        boost_root == first_env(e, keys("Boost_ROOT", triple_us))
        pb_dir == first_env(e, keys("Protobuf_DIR", triple_us))
        lz4_dir == first_env(e, keys("LZ4_DIR", triple_us))
        prefix_env == UnwrapOr(OrElse(env_var(e, "CMAKE_PREFIX_PATH_" \o triple_us),
                                      env_var(e, "CMAKE_PREFIX_PATH")), "")
    IN  [ triple_us |-> triple_us,
          build_type |-> build_type(e),
          boost_root |-> boost_root,
          boost_inc |-> first_env(e, keys("Boost_INCLUDE_DIR", triple_us)),
          boost_lib |-> first_env(e, keys("Boost_LIBRARY_DIR", triple_us)),
          pb_dir |-> pb_dir,
          pb_inc |-> first_env(e, keys("Protobuf_INCLUDE_DIR", triple_us)),
          pb_lib |-> OrElse(first_env(e, keys("Protobuf_LIBRARY", triple_us)),
                            first_env(e, keys("Protobuf_LIBRARIES", triple_us))),
          pb_protoc |-> first_env(e, <<"Protobuf_PROTOC_EXECUTABLE", "PROTOC">>),
          \* build.rs has no such binding: it writes the literal "protobuf-lite"
          pb_component |->
              IF d = "main" THEN "protobuf-lite"
              ELSE UnwrapOr(env_var(e, "PROTOBUF_COMPONENT"),
                            IF contains(t, "android") THEN "protobuf-lite" ELSE "protobuf"),
          lz4_dir |-> lz4_dir,
          lz4_inc |-> OrElse(first_env(e, keys("LZ4_INCLUDE_DIR", triple_us)),
                             IF IsSome(lz4_dir) THEN Some(Unwrap(lz4_dir) \o "/include")
                             ELSE None),
          lz4_lib |-> OrElse(first_env(e, keys("LZ4_LIBRARY", triple_us)),
                             IF IsSome(lz4_dir) THEN Some(Unwrap(lz4_dir) \o "/lib/liblz4.a")
                             ELSE None),
          cmake_prefix |-> SelectSeq(split(prefix_env, ":"), NonEmpty)
                           \o (IF IsSome(boost_root) THEN boost_root ELSE <<>>)
                           \o (IF IsSome(pb_dir) THEN pb_dir ELSE <<>>) ]

\* a printed line, tagged with the dependency whose section of the driver prints it
Line(dep, text) == [dep |-> dep, line |-> text]

Lines(dep, texts) == [i \in 1..Len(texts) |-> Line(dep, texts[i])]

\* one iteration of the Boost loop of build.rs, for the artifact found (or None)
BoostLinesMain(c, found) ==
    IF IsSome(found)
    THEN IF IsSome(stem_from_lib(Unwrap(found)))
         THEN << "cargo:rustc-link-lib=static=" \o Unwrap(stem_from_lib(Unwrap(found))) >>
         ELSE <<>>
    ELSE << "cargo:rustc-link-lib=static=boost_" \o c >>

\* one iteration of the Boost loop of android.rs
BoostLinesBuild(c, found) ==
    IF IsSome(found) THEN print_link_for(Unwrap(found))
    ELSE << "cargo:rustc-link-lib=boost_" \o c >>

\* a faulty LZ4 section of build.rs: the library is printed before its search path
Lz4LinesMain_lib_first(l, f) ==
    IF IsSome(l.lz4_lib) /\ exists(f, Unwrap(l.lz4_lib))
    THEN << "cargo:rustc-link-lib=static="
                \o UnwrapOr(stem_from_lib(Unwrap(l.lz4_lib)), "lz4"),
            "cargo:rustc-link-search=native=" \o dir_of(Unwrap(l.lz4_lib)) >>
    ELSE IF IsSome(l.lz4_dir)
    THEN << "cargo:rustc-link-lib=static=lz4",
            "cargo:rustc-link-search=native=" \o Unwrap(l.lz4_dir) \o "/lib" >>
    ELSE IF IsSome(l.lz4_lib) THEN <<>>
    ELSE << "cargo:warning=LZ4 not explicitly provided; make sure the linker can find it." >>

\* the LZ4 section of build.rs
Lz4LinesMain(l, f) ==
    IF IsSome(l.lz4_lib)
    THEN IF exists(f, Unwrap(l.lz4_lib))
         THEN << "cargo:rustc-link-search=native=" \o dir_of(Unwrap(l.lz4_lib)),
                 "cargo:rustc-link-lib=static="
                     \o UnwrapOr(stem_from_lib(Unwrap(l.lz4_lib)), "lz4") >>
         ELSE IF IsSome(l.lz4_dir)
         THEN << "cargo:rustc-link-search=native=" \o Unwrap(l.lz4_dir) \o "/lib",
                 "cargo:rustc-link-lib=static=lz4" >>
         ELSE <<>>
    ELSE IF IsSome(l.lz4_dir)
    THEN << "cargo:rustc-link-search=native=" \o Unwrap(l.lz4_dir) \o "/lib",
            "cargo:rustc-link-lib=static=lz4" >>
    ELSE << "cargo:warning=LZ4 not explicitly provided; make sure the linker can find it." >>

\* the LZ4 section of android.rs, `order` being the listing of <LZ4_DIR>/lib
Lz4LinesBuild(l, f, e, order) ==
    IF IsSome(l.lz4_lib)
    THEN IF exists(f, Unwrap(l.lz4_lib))
         THEN << "cargo:rustc-link-search=native=" \o dir_of(Unwrap(l.lz4_lib)) >>
              \o print_link_for(Unwrap(l.lz4_lib))
         ELSE << "cargo:warning=LZ4_LIBRARY set but file not found: " \o Unwrap(l.lz4_lib) >>
    ELSE IF IsSome(l.lz4_dir)
    THEN LET libdir == PathJoin(Unwrap(l.lz4_dir), "lib")
             found == find_lib_with_prefix("build", e, read_dir(f, libdir, order),
                                           libdir, "lz4")
         IN  << "cargo:rustc-link-search=native=" \o libdir >>
             \o (IF IsSome(found) THEN print_link_for(Unwrap(found))
                 ELSE << "cargo:rustc-link-lib=lz4" >>)
    ELSE << "cargo:rustc-link-lib=lz4" >>

\* the Protobuf section of build.rs
ProtobufLinesMain(l, f) ==
    IF IsSome(l.pb_lib)
    THEN IF exists(f, Unwrap(l.pb_lib))
         THEN << "cargo:rustc-link-search=native=" \o dir_of(Unwrap(l.pb_lib)),
                 "cargo:rustc-link-lib=static="
                     \o UnwrapOr(stem_from_lib(Unwrap(l.pb_lib)), "protobuf-lite") >>
         ELSE IF IsSome(l.pb_dir)
         THEN << "cargo:rustc-link-search=native=" \o Unwrap(l.pb_dir) \o "/lib",
                 "cargo:rustc-link-lib=static=protobuf-lite" >>
         ELSE IF IsSome(l.pb_inc)
         THEN << "cargo:rustc-link-search=native=" \o dir_of(Unwrap(l.pb_inc) \o "/../lib"),
                 "cargo:rustc-link-lib=static=protobuf-lite" >>
         ELSE << "cargo:rustc-link-lib=static=protobuf-lite" >>
    ELSE << "cargo:rustc-link-lib=static=protobuf-lite" >>

\* the Protobuf section of android.rs, `order` being the listing of <Protobuf_DIR>/lib
ProtobufLinesBuild(l, f, e, order) ==
    IF IsSome(l.pb_lib)
    THEN << "cargo:rustc-link-search=native=" \o dir_of(Unwrap(l.pb_lib)) >>
         \o (IF exists(f, Unwrap(l.pb_lib)) THEN print_link_for(Unwrap(l.pb_lib))
             ELSE << "cargo:rustc-link-lib=" \o l.pb_component >>)
    ELSE IF IsSome(l.pb_dir)
    THEN LET libdir == PathJoin(Unwrap(l.pb_dir), "lib")
             found == find_lib_with_prefix("build", e, read_dir(f, libdir, order),
                                           libdir, l.pb_component)
         IN  << "cargo:rustc-link-search=native=" \o libdir >>
             \o (IF IsSome(found) THEN print_link_for(Unwrap(found))
                 ELSE << "cargo:rustc-link-lib=" \o l.pb_component >>)
    ELSE << "cargo:rustc-link-lib=" \o l.pb_component >>

\* the C++ runtime name: build.rs defaults to c++_shared for every triple
cxx_stdlib(d, t, e) ==
    IF d = "main" THEN UnwrapOr(env_var(e, "CXX_STDLIB"), "c++_shared")
    ELSE UnwrapOr(env_var(e, "CXX_STDLIB"),
                  IF contains(t, "android") THEN "c++_shared"
                  ELSE IF contains(t, "apple") THEN "c++"
                  ELSE "stdc++")

needs_atomic(t) == contains(t, "armv7") \/ contains(t, "androideabi")

\* the names the rerun loop registers, each with its triple-suffixed variant
RerunKeys(d) ==
    IF d = "main"
    THEN << "Boost_ROOT", "Boost_INCLUDE_DIR", "Boost_LIBRARY_DIR",
            "Protobuf_DIR", "Protobuf_INCLUDE_DIR", "Protobuf_LIBRARY", "Protobuf_LIBRARIES",
            "Protobuf_PROTOC_EXECUTABLE", "PROTOC",
            "LZ4_DIR", "LZ4_INCLUDE_DIR", "LZ4_LIBRARY",
            "CMAKE_PREFIX_PATH", "CMAKE_PREFIX_PATH_", "CXX_STDLIB" >>
    ELSE << "Boost_ROOT", "Boost_INCLUDE_DIR", "Boost_LIBRARY_DIR",
            "Protobuf_DIR", "Protobuf_INCLUDE_DIR", "Protobuf_LIBRARY", "Protobuf_LIBRARIES",
            "Protobuf_PROTOC_EXECUTABLE", "PROTOC", "PROTOBUF_COMPONENT",
            "LZ4_DIR", "LZ4_INCLUDE_DIR", "LZ4_LIBRARY",
            "CMAKE_PREFIX_PATH", "CMAKE_PREFIX_PATH_", "CXX_STDLIB",
            "ANDROID_PREFER_DYNAMIC" >>

\* a faulty rerun loop: the triple-suffixed variants are not registered
RECURSIVE RerunEnvLines_generic_only(_, _)
RerunEnvLines_generic_only(ks, triple_us) ==
    IF ks = <<>> THEN <<>>
    ELSE << add_rerun_env(ks[1]) >> \o RerunEnvLines_generic_only(Tail(ks), triple_us)

RECURSIVE RerunEnvLines(_, _)
RerunEnvLines(ks, triple_us) ==
    IF ks = <<>> THEN <<>>
    ELSE << add_rerun_env(ks[1]), add_rerun_env(ks[1] \o "_" \o triple_us) >>
         \o RerunEnvLines(Tail(ks), triple_us)

RerunChangedLines ==
    << "cargo:rerun-if-changed=src/actor.hpp",
       "cargo:rerun-if-changed=src/config.hpp",
       "cargo:rerun-if-changed=src/libvalhalla.hpp",
       "cargo:rerun-if-changed=src/libvalhalla.cpp",
       "cargo:rerun-if-changed=src/lib.rs",
       "cargo:rerun-if-changed=valhalla" >>

\* the sections of the linker configuration, in the order the driver runs them
Sections ==
    << "valhalla", "boost", "boost_filesystem", "boost_system", "boost_regex",
       "boost_date_time", "boost_chrono", "boost_thread", "lz4", "protobuf",
       "cxx", "z", "atomic" >>

\* the directory the section of dep lists with read_dir ("" when it lists none)
ListingDir(dep, d, l) ==
    IF starts_with(dep, "boost_") THEN UnwrapOr(l.boost_lib, "")
    ELSE IF dep = "lz4" /\ d = "build" THEN PathJoin(UnwrapOr(l.lz4_dir, ""), "lib")
    ELSE IF dep = "protobuf" /\ d = "build" THEN PathJoin(UnwrapOr(l.pb_dir, ""), "lib")
    ELSE ""

\* the lines the section of dep prints in a run of driver d for the triple t over
\* the environment e, the bindings l made from it and the filesystem f, its
\* read_dir call listing in `order`
SectionLines(dep, d, t, e, l, f, order) ==
        IF dep = "valhalla" THEN << "cargo:rustc-link-search=" \o dst \o "/build/src/" >>
        ELSE IF dep = "boost"
        THEN IF IsSome(l.boost_lib)
             THEN << "cargo:rustc-link-search=native=" \o Unwrap(l.boost_lib) >>
             ELSE <<>>
        ELSE IF starts_with(dep, "boost_")
        THEN IF IsSome(l.boost_lib)
             THEN LET bl == Unwrap(l.boost_lib)
                      c == Unwrap(strip_prefix(dep, "boost_"))
                      found == find_lib_with_prefix(d, e, read_dir(f, bl, order), bl, dep)
                  IN  IF d = "main" THEN BoostLinesMain(c, found)
                      ELSE BoostLinesBuild(c, found)
             ELSE <<>>
        ELSE IF dep = "lz4"
        THEN IF d = "main" THEN Lz4LinesMain(l, f) ELSE Lz4LinesBuild(l, f, e, order)
        ELSE IF dep = "protobuf"
        THEN IF d = "main" THEN ProtobufLinesMain(l, f)
             ELSE ProtobufLinesBuild(l, f, e, order)
        ELSE IF dep = "cxx" THEN << "cargo:rustc-link-lib=" \o cxx_stdlib(d, t, e) >>
        ELSE IF dep = "z" THEN << "cargo:rustc-link-lib=z" >>
        ELSE IF dep = "atomic" /\ needs_atomic(t) THEN << "cargo:rustc-link-lib=atomic" >>
        ELSE <<>>

----------------------------------------------------------------------------
(* Inputs of a full run *)

Drivers == {"main", "build"}

Targets == {"armv7-linux-androideabi", "aarch64-linux-android",
            "x86_64-unknown-linux-gnu", "aarch64-apple-darwin"}

\* the variables a run may find set, each with the values it may hold
EnvCandidates(t) ==
    { <<"Boost_LIBRARY_DIR", "/b">>,
      <<"Boost_LIBRARY_DIR_" \o replace(t, "-", "_"), "/b">>,
      <<"LZ4_DIR", "/l">>,
      <<"LZ4_LIBRARY", "/l/lib/liblz4.so">>, <<"LZ4_LIBRARY", "/o/lz4.lib">>,
      <<"LZ4_LIBRARY", "/x/liblz4.a">>,
      <<"Protobuf_DIR", "/p">>,
      <<"Protobuf_LIBRARY", "/p/lib/libprotobuf-lite.so">>,
      <<"Protobuf_LIBRARY", "/o/pb.lib">>, <<"Protobuf_LIBRARY", "/x/libprotobuf.a">>,
      <<"Protobuf_INCLUDE_DIR", "/p/include">>,
      <<"CXX_STDLIB", "c++_static">>,
      <<"ANDROID_PREFER_DYNAMIC", "1">>,
      <<"PROTOBUF_COMPONENT", "protobuf">> }

\* the environment holding the pairs ps (at most one value for a name)
EnvOf(ps) == [n \in {q[1] : q \in ps} |-> (CHOOSE q \in ps : q[1] = n)[2]]

Envs(t) ==
    { EnvOf(ps) : ps \in { qs \in SUBSET EnvCandidates(t) :
                              /\ Cardinality(qs) <= MaxEnvVars
                              /\ \A q1, q2 \in qs : q1[1] = q2[1] => q1 = q2 } }

\* a filesystem from its directories: every entry that is no directory is a file,
\* and a directory may be listed in any order
FsOf(dirs) ==
    LET names == UNION {dirs[d] : d \in DOMAIN dirs}
        entries == { e \in (DOMAIN dirs) \X names : e[2] \in dirs[e[1]] }
    IN  [ dirs |-> dirs,
          files |-> { PathJoin(e[1], e[2]) : e \in entries } \ DOMAIN dirs,
          listings |-> [d \in DOMAIN dirs |-> Orderings(dirs[d])] ]

\* a stocked tree: two static boost_thread, a dynamic boost_system only, both kinds
\* of lz4 and of protobuf, two misnamed libraries
Stocked ==
    FsOf( "/b" :> {"libboost_thread.a", "libboost_thread-mt.a", "libboost_system.so"}
       @@ "/l" :> {"lib"}
       @@ "/l/lib" :> {"liblz4.a", "liblz4.so"}
       @@ "/p" :> {"lib"}
       @@ "/p/lib" :> {"libprotobuf-lite.a", "libprotobuf-lite.so", "libprotobuf.so"}
       @@ "/o" :> {"lz4.lib", "pb.lib"} )

\* a bare tree: the directories exist and hold no library
Bare ==
    FsOf( "/b" :> {"libboost_system.so.1"}
       @@ "/l" :> {"lib"}
       @@ "/l/lib" :> {}
       @@ "/p" :> {} )

Worlds == {Stocked, Bare}

Record(file, command) == [file |-> file, command |-> command]

\* the compile-command database the CMake build leaves behind
Databases ==
    { [state |-> "absent", commands |-> <<>>],
      [state |-> "unparsable", commands |-> <<>>],
      [state |-> "ok", commands |-> << Record("/v/src/baldr/datetime.cc", "cc -Iv -c datetime.cc") >>],
      [state |-> "ok", commands |->
          << Record("/v/src/midgard/util.cc", "cc -Iv/midgard -c util.cc"),
             Record("/v/src/config.cc", "cc -Ifoo -isystem bar -c config.cc"),
             Record("/v/test/config.cc", "cc -Itest -c config.cc") >>] }

----------------------------------------------------------------------------
(* A full run, step by step *)

\* println! of the lines texts, in the section of the dependency dep
Emit(dep, texts) == out' = out \o Lines(dep, texts)

\* arg is unused in a full run; ret holds the message of the panic that aborted it
Init ==
    /\ driver \in Drivers
    /\ target \in Targets
    /\ env \in Envs(target)
    /\ fs \in Worlds
    /\ db \in Databases
    /\ pc = "start"
    /\ comp = 0
    /\ loc = None
    /\ includes = None
    /\ bridge = None
    /\ out = <<>>
    /\ run = 1
    /\ prev = <<>>
    /\ arg = None
    /\ ret = None

Inputs == <<driver, target, env, fs, db, arg>>

\* lines 59-85 of build.rs, 74-102 of android.rs
ReadEnv ==
    /\ pc = "start"
    /\ loc' = Some(Locals(driver, target, env))
    /\ pc' = "cmake"
    /\ UNCHANGED <<Inputs, comp, includes, bridge, out, run, prev, ret>>

\* cfg.build_target("valhalla").build() returns the output directory
CmakeBuild ==
    /\ pc = "cmake"
    /\ pc' = "introspect"
    /\ UNCHANGED <<Inputs, comp, loc, includes, bridge, out, run, prev, ret>>

\* ... or panics when the native build fails
CmakeFail ==
    /\ pc = "cmake"
    /\ pc' = "aborted"
    /\ ret' = Some("cmake build failed")
    /\ UNCHANGED <<Inputs, comp, loc, includes, bridge, out, run, prev>>

\* let valhalla_includes = extract_includes(...)
Introspect ==
    /\ pc = "introspect"
    /\ LET r == extract_includes(db, "config.cc")
       IN  IF r.ok
           THEN includes' = Some(r.val) /\ pc' = "link" /\ ret' = ret
           ELSE includes' = includes /\ pc' = "aborted" /\ ret' = Some(r.val)
    /\ UNCHANGED <<Inputs, comp, loc, bridge, out, run, prev>>

\* the search path of Valhalla's own static artifacts
LinkValhalla ==
    /\ pc = "link"
    /\ Emit("valhalla", << "cargo:rustc-link-search=" \o dst \o "/build/src/" >>)
    /\ pc' = "boost"
    /\ UNCHANGED <<Inputs, comp, loc, includes, bridge, run, prev, ret>>

\* if let Some(bl) = &boost_lib: the search path, then the loop
BoostDir ==
    /\ pc = "boost"
    /\ IF IsSome(Unwrap(loc).boost_lib)
       THEN /\ Emit("boost", << "cargo:rustc-link-search=native="
                                   \o Unwrap(Unwrap(loc).boost_lib) >>)
            /\ comp' = 1
            /\ pc' = "boost_comp"
       ELSE /\ out' = out
            /\ comp' = comp
            /\ pc' = "lz4"
    /\ UNCHANGED <<Inputs, loc, includes, bridge, run, prev, ret>>

\* one iteration of `for comp in components`, with its own listing of the directory
BoostComponent ==
    /\ pc = "boost_comp"
    /\ LET bl == Unwrap(Unwrap(loc).boost_lib)
           c == components[comp]
       IN  \E found \in { find_lib_with_prefix(driver, env, read_dir(fs, bl, order),
                                               bl, "boost_" \o c) :
                          order \in Listings(fs, bl) } :
             Emit("boost_" \o c, IF driver = "main" THEN BoostLinesMain(c, found)
                                 ELSE BoostLinesBuild(c, found))
    /\ IF comp = Len(components)
       THEN comp' = 0 /\ pc' = "lz4"
       ELSE comp' = comp + 1 /\ pc' = pc
    /\ UNCHANGED <<Inputs, loc, includes, bridge, run, prev, ret>>

Lz4 ==
    /\ pc = "lz4"
    /\ IF driver = "main"
       THEN Emit("lz4", Lz4LinesMain(Unwrap(loc), fs))
       ELSE \E texts \in { Lz4LinesBuild(Unwrap(loc), fs, env, order) :
                           order \in Listings(fs, PathJoin(UnwrapOr(Unwrap(loc).lz4_dir, ""),
                                                           "lib")) } :
              Emit("lz4", texts)
    /\ pc' = "protobuf"
    /\ UNCHANGED <<Inputs, comp, loc, includes, bridge, run, prev, ret>>

Protobuf ==
    /\ pc = "protobuf"
    /\ IF driver = "main"
       THEN Emit("protobuf", ProtobufLinesMain(Unwrap(loc), fs))
       ELSE \E texts \in { ProtobufLinesBuild(Unwrap(loc), fs, env, order) :
                           order \in Listings(fs, PathJoin(UnwrapOr(Unwrap(loc).pb_dir, ""),
                                                           "lib")) } :
              Emit("protobuf", texts)
    /\ pc' = "system"
    /\ UNCHANGED <<Inputs, comp, loc, includes, bridge, run, prev, ret>>

\* the C++ runtime, z, and atomic where the triple needs it
SystemLibs ==
    /\ pc = "system"
    /\ out' = out
              \o Lines("cxx", << "cargo:rustc-link-lib=" \o cxx_stdlib(driver, target, env) >>)
              \o Lines("z", << "cargo:rustc-link-lib=z" >>)
              \o Lines("atomic", IF needs_atomic(target)
                                 THEN << "cargo:rustc-link-lib=atomic" >> ELSE <<>>)
    /\ pc' = "bridge"
    /\ UNCHANGED <<Inputs, comp, loc, includes, bridge, run, prev, ret>>

\* cxx_build::bridges(...).includes(valhalla_includes).compile(...)
CxxBridge ==
    /\ pc = "bridge"
    /\ bridge' = Some(Unwrap(includes))
    /\ pc' = "rerun"
    /\ UNCHANGED <<Inputs, comp, loc, includes, out, run, prev, ret>>

RerunTriggers ==
    /\ pc = "rerun"
    /\ Emit("rerun", RerunChangedLines
                     \o RerunEnvLines(RerunKeys(driver), Unwrap(loc).triple_us))
    /\ pc' = "prost"
    /\ UNCHANGED <<Inputs, comp, loc, includes, bridge, run, prev, ret>>

\* prost_build::compile_protos over valhalla/proto
Prost ==
    /\ pc = "prost"
    /\ pc' = "done"
    /\ UNCHANGED <<Inputs, comp, loc, includes, bridge, out, run, prev, ret>>

\* ... or one of its `expect`s panics
ProstFail ==
    /\ pc = "prost"
    /\ pc' = "aborted"
    /\ ret' = Some("Failed to compile proto files")
    /\ UNCHANGED <<Inputs, comp, loc, includes, bridge, out, run, prev>>

\* cargo runs the build script again, over the same environment and filesystem
Rerun ==
    /\ pc = "done"
    /\ run < MaxRuns
    /\ run' = run + 1
    /\ prev' = out
    /\ out' = <<>>
    /\ pc' = "start"
    /\ comp' = 0
    /\ loc' = None
    /\ includes' = None
    /\ bridge' = None
    /\ UNCHANGED <<Inputs, ret>>

Next ==
    \/ ReadEnv
    \/ CmakeBuild
    \/ CmakeFail
    \/ Introspect
    \/ LinkValhalla
    \/ BoostDir
    \/ BoostComponent
    \/ Lz4
    \/ Protobuf
    \/ SystemLibs
    \/ CxxBridge
    \/ RerunTriggers
    \/ Prost
    \/ ProstFail
    \/ Rerun

Spec == Init /\ [][Next]_vars

----------------------------------------------------------------------------
(* The helpers on their own: each specification draws the arguments of one  *)
(* helper and calls it once                                                  *)

\* the variables of a full run, at rest
NoRun ==
    /\ comp = 0
    /\ loc = None
    /\ includes = None
    /\ bridge = None
    /\ out = <<>>
    /\ run = 1
    /\ prev = <<>>

NoDatabase == [state |-> "absent", commands |-> <<>>]

Call(result) ==
    /\ pc = "call"
    /\ ret' = result
    /\ pc' = "ret"
    /\ UNCHANGED <<Inputs, comp, loc, includes, bridge, out, run, prev>>

(* first_env(&keys(base, &triple_us)) *)

Bases == {"Boost_LIBRARY_DIR", "LZ4_LIBRARY", "Protobuf_DIR"}

TriplesUs == {replace(t, "-", "_") : t \in Targets} \cup {""}

EnvValues == {"", "/specific", "/generic"}

\* every environment over the names ns with values in EnvValues
EnvsOver(ns) == UNION { [d -> EnvValues] : d \in SUBSET ns }

InitResolver ==
    /\ driver \in Drivers
    /\ target = ""
    /\ arg \in [base : Bases, triple_us : TriplesUs]
    /\ env \in EnvsOver({arg.base \o "_" \o arg.triple_us, arg.base})
    /\ fs = FsOf(<<>>)
    /\ db = NoDatabase
    /\ pc = "call"
    /\ ret = None
    /\ NoRun

CallFirstEnv == Call(first_env(env, keys(arg.base, arg.triple_us)))

NextResolver == CallFirstEnv

SpecResolver == InitResolver /\ [][NextResolver]_vars

(* find_lib_with_prefix(dir, prefix) *)

EntryNames == {"libfoo.a", "libfoo.so", "libfoo-mt.a", "libfoo-mt.so", "libfoo.so.1",
               "libbar.a", "foo.so"}

InitLocator ==
    /\ driver \in Drivers
    /\ target = ""
    /\ env \in {EnvOf({}), EnvOf({<<"ANDROID_PREFER_DYNAMIC", "1">>}),
                EnvOf({<<"ANDROID_PREFER_DYNAMIC", "0">>})}
    /\ arg \in [dir : {"/d", "/unreadable"}, prefix : {"foo"}]
    /\ \E content \in SUBSET EntryNames :
         /\ Cardinality(content) <= MaxEntries
         /\ fs = FsOf("/d" :> content)
    /\ db = NoDatabase
    /\ pc = "call"
    /\ ret = None
    /\ NoRun

CallFindLib ==
    \E order \in Listings(fs, arg.dir) :
        Call(find_lib_with_prefix(driver, env, read_dir(fs, arg.dir, order),
                                  arg.dir, arg.prefix))

NextLocator == CallFindLib

SpecLocator == InitLocator /\ [][NextLocator]_vars

(* stem_from_lib(path) *)

PathDirs == {"", "/d/", "d/"}

NameHeads == {"lib", "Lib", "li", ""}

NameStems == {"", "x", "boost_filesystem", "protobuf-lite", "x.a", "z.so"}

NameTails == {".a", ".so", "", ".txt", ".so.1", ".A", "a", "/", "/.."}

InitDecomposer ==
    /\ driver \in Drivers
    /\ target = ""
    /\ env = EnvOf({})
    /\ \E d \in PathDirs, h \in NameHeads, m \in NameStems, t \in NameTails :
         arg = [path |-> d \o h \o m \o t]
    /\ fs = FsOf(<<>>)
    /\ db = NoDatabase
    /\ pc = "call"
    /\ ret = None
    /\ NoRun

CallStemFromLib == Call(stem_from_lib(arg.path))

NextDecomposer == CallStemFromLib

SpecDecomposer == InitDecomposer /\ [][NextDecomposer]_vars

(* extract_includes(compile_commands, "config.cc") *)

Tokens == {"cc", "-Ifoo", "-I", "-isystem", "bar", "-isystem=x"}

Separators == {" ", " \t\n "}

TokenSeqs == UNION { [1..n -> Tokens] : n \in 0..MaxTokens }
             \cup { <<"cc", "-Ifoo", "-isystem", "bar", "-c", "config.cc">> }

InitIntrospector ==
    /\ driver \in Drivers
    /\ target = ""
    /\ env = EnvOf({})
    /\ arg \in [tokens : TokenSeqs, sep : Separators]
    /\ fs = FsOf(<<>>)
    /\ db = [state |-> "ok", commands |->
                << Record("/v/src/midgard/util.cc", "cc -Iv/midgard -c util.cc"),
                   Record("/v/src/config.cc", join(arg.tokens, arg.sep)) >>]
    /\ pc = "call"
    /\ ret = None
    /\ NoRun

CallExtractIncludes == Call(extract_includes(db, "config.cc"))

NextIntrospector == CallExtractIncludes

SpecIntrospector == InitIntrospector /\ [][NextIntrospector]_vars

(* one run of the driver over the optional variables *)

\* one run of the driver, from its entry to its exit or its panic
NextOnce ==
    \/ ReadEnv
    \/ CmakeBuild
    \/ CmakeFail
    \/ Introspect
    \/ LinkValhalla
    \/ BoostDir
    \/ BoostComponent
    \/ Lz4
    \/ Protobuf
    \/ SystemLibs
    \/ CxxBridge
    \/ RerunTriggers
    \/ Prost
    \/ ProstFail

\* the optional dependency variables, one value each, and the two flags of android.rs
OptionalCandidates(t) ==
    { <<"Boost_ROOT", "/b">>, <<"Boost_INCLUDE_DIR", "/b/include">>,
      <<"Boost_LIBRARY_DIR", "/b">>,
      <<"Boost_LIBRARY_DIR_" \o replace(t, "-", "_"), "/b">>,
      <<"Protobuf_DIR", "/p">>, <<"Protobuf_INCLUDE_DIR", "/p/include">>,
      <<"Protobuf_LIBRARY", "/p/lib/libprotobuf-lite.so">>,
      <<"Protobuf_LIBRARIES", "/p/lib/libprotobuf.so">>,
      <<"LZ4_DIR", "/l">>, <<"LZ4_INCLUDE_DIR", "/l/include">>,
      <<"LZ4_LIBRARY", "/l/lib/liblz4.so">>,
      <<"CXX_STDLIB", "c++_static">>,
      <<"ANDROID_PREFER_DYNAMIC", "1">>,
      <<"PROTOBUF_COMPONENT", "protobuf">> }

\* a run over a few of them, the CMake build leaving a database with the reference
\* source behind
InitOnce ==
    /\ driver \in Drivers
    /\ target \in Targets
    /\ \E ps \in SUBSET OptionalCandidates(target) :
         /\ Cardinality(ps) <= MaxEnvVars
         /\ env = EnvOf(ps)
    /\ fs \in Worlds
    /\ db \in {d \in Databases : Len(d.commands) = 3}
    /\ pc = "start"
    /\ arg = None
    /\ ret = None
    /\ NoRun

SpecOnce == InitOnce /\ [][NextOnce]_vars

----------------------------------------------------------------------------
(* Properties *)

\* the lines of `out` that are link-library and link-search directives
IsLinkLib(text) == starts_with(text, "cargo:rustc-link-lib=")
IsLinkSearch(text) == starts_with(text, "cargo:rustc-link-search=")
IsRerun(text) == starts_with(text, "cargo:rerun-if-")
IsDirective(text) == IsLinkLib(text) \/ IsLinkSearch(text)

Printed == {out[i].line : i \in DOMAIN out}

\* k is set to a non-empty value
SetNonEmpty(k) == k \in DOMAIN env /\ env[k] # ""

\* C1: the Environment Resolver returns the value of `<base>_<triple>` when that
\* is set and non-empty, else the value of `<base>` when that is set and non-empty,
\* else absent; with both set (and non-empty) the triple-specific value wins.
C1_ResolverOrder ==
    pc = "ret" =>
        LET specific == arg.base \o "_" \o arg.triple_us
            generic == arg.base
        IN  /\ SetNonEmpty(specific) => ret = Some(env[specific])
            /\ ~SetNonEmpty(specific) /\ SetNonEmpty(generic) => ret = Some(env[generic])
            /\ ~SetNonEmpty(specific) /\ ~SetNonEmpty(generic) => ret = None

\* both variables are set, to different values, and the triple-specific one came back
C1_Witness ==
    /\ pc = "ret"
    /\ arg.base = "LZ4_LIBRARY"
    /\ arg.triple_us = "armv7_linux_androideabi"
    /\ SetNonEmpty("LZ4_LIBRARY_armv7_linux_androideabi")
    /\ SetNonEmpty("LZ4_LIBRARY")
    /\ env["LZ4_LIBRARY_armv7_linux_androideabi"] # env["LZ4_LIBRARY"]
    /\ ret = Some(env["LZ4_LIBRARY_armv7_linux_androideabi"])

\* the entries of the directory the Locator was given that it may consider: the
\* names beginning with lib<prefix> and ending in the extension ext
Candidates(ext) ==
    IF arg.dir \in DOMAIN fs.dirs
    THEN { arg.dir \o "/" \o n : n \in { m \in fs.dirs[arg.dir] :
                /\ starts_with(m, "lib" \o arg.prefix)
                /\ ends_with(m, "." \o ext) } }
    ELSE {}

\* C2: the Locator returns an entry named lib<prefix>*.a or lib<prefix>*.so only;
\* under the default policy a static one when there is any, else a dynamic one;
\* under the inverted policy a dynamic one when there is any, else a static one;
\* absent when nothing matches or the directory is unreadable.
C2_LocatorPolicy ==
    pc = "ret" =>
        LET first == IF prefer_dynamic(driver, env) THEN Candidates("so") ELSE Candidates("a")
            second == IF prefer_dynamic(driver, env) THEN Candidates("a") ELSE Candidates("so")
        IN  /\ first # {} => ret \in {Some(p) : p \in first}
            /\ first = {} /\ second # {} => ret \in {Some(p) : p \in second}
            /\ first = {} /\ second = {} => ret = None
            /\ fs.dirs["/d"] = {"libfoo.a", "libfoo.so"} /\ arg.dir = "/d" =>
                   ret = Some(IF prefer_dynamic(driver, env) THEN "/d/libfoo.so"
                              ELSE "/d/libfoo.a")
            /\ fs.dirs["/d"] = {"libfoo.so"} /\ arg.dir = "/d" => ret = Some("/d/libfoo.so")
            /\ arg.dir = "/unreadable" => ret = None

\* both kinds are in the directory, the policy is inverted, the dynamic one came back
C2_Witness ==
    /\ pc = "ret"
    /\ driver = "build"
    /\ arg.dir = "/d"
    /\ fs.dirs["/d"] = {"libfoo.a", "libfoo.so"}
    /\ env_var(env, "ANDROID_PREFER_DYNAMIC") = Some("1")
    /\ ret = Some("/d/libfoo.so")

\* the file name f has the shape lib*<suffix>
HasShape(f, suffix) ==
    /\ Len(f) >= 3 + Len(suffix)
    /\ SubSeq(f, 1, 3) = "lib"
    /\ SubSeq(f, Len(f) - Len(suffix) + 1, Len(f)) = suffix

\* C3: the Decomposer returns the file name without its leading `lib` and its
\* trailing `.a` or `.so` when the file name is lib*.a or lib*.so, and absent for
\* every other file name.
C3_DecomposerShape ==
    pc = "ret" =>
        LET f == UnwrapOr(file_name(arg.path), "")
        IN  /\ HasShape(f, ".a") => ret = Some(SubSeq(f, 4, Len(f) - 2))
            /\ HasShape(f, ".so") => ret = Some(SubSeq(f, 4, Len(f) - 3))
            /\ ~HasShape(f, ".a") /\ ~HasShape(f, ".so") => ret = None
            /\ arg.path = "libboost_filesystem.a" => ret = Some("boost_filesystem")
            /\ arg.path = "libprotobuf-lite.so" => ret = Some("protobuf-lite")
            /\ arg.path = "boost_filesystem.txt" => ret = None

\* a dynamic library in a directory was decomposed
C3_Witness ==
    /\ pc = "ret"
    /\ arg.path = "/d/libprotobuf-lite.so"
    /\ ret = Some("protobuf-lite")

\* what the token at position i of toks contributes to the include directories
Contribution(toks, i) ==
    IF starts_with(toks[i], "-I") THEN << SubSeq(toks[i], 3, Len(toks[i])) >>
    ELSE IF toks[i] = "-isystem" /\ i < Len(toks) THEN << toks[i + 1] >>
    ELSE <<>>

\* the positions of toks that contribute, in order
Contributing(toks) ==
    SelectSeq([i \in 1..Len(toks) |-> i], LAMBDA i : Contribution(toks, i) # <<>>)

\* C4: extract_includes returns, in the order of the tokens, the remainder of every
\* token beginning with -I and the token following every token equal to -isystem,
\* and nothing else.
C4_IncludesInOrder ==
    pc = "ret" =>
        /\ ret.ok
        /\ Len(ret.val) = Len(Contributing(arg.tokens))
        /\ \A k \in 1..Len(ret.val) :
               <<ret.val[k]>> = Contribution(arg.tokens, Contributing(arg.tokens)[k])
        /\ arg.tokens = <<"cc", "-Ifoo", "-isystem", "bar", "-c", "config.cc">> =>
               ret.val = <<"foo", "bar">>

\* the command of the compilation database's example was scanned
C4_Witness ==
    /\ pc = "ret"
    /\ db.commands[2].command = "cc -Ifoo -isystem bar -c config.cc"
    /\ ret = Ok(<<"foo", "bar">>)

\* the database has no record of the reference source
NoReferenceRecord ==
    \/ db.state # "ok"
    \/ \A i \in DOMAIN db.commands :
           ~ends_with(db.commands[i].file, "config.cc")

\* C5: with the database absent, unparsable or without a record of config.cc the
\* run aborts at the Introspector with a message naming the failure: no include
\* list is bound, nothing is printed and the bridge is not compiled; otherwise the
\* include list is that of the first record of config.cc.
C5_IntrospectorAborts ==
    /\ NoReferenceRecord =>
          /\ pc \in {"start", "cmake", "introspect", "aborted"}
          /\ includes = None
          /\ bridge = None
          /\ out = <<>>
          /\ pc = "aborted" =>
                 ret \in { Some("cmake build failed"),
                           Some("compile_commands.json not found"),
                           Some("parse compile_commands.json"),
                           Some("reference cpp not found in compile_commands.json") }
    /\ pc = "aborted" => ~ENABLED Next
    /\ ~NoReferenceRecord /\ IsSome(includes) /\ Len(db.commands) = 3 =>
          includes = Some(<<"foo", "bar">>)

\* the database parses, holds no record of config.cc, and the run was aborted for it
C5_Witness ==
    /\ pc = "aborted"
    /\ db.state = "ok"
    /\ ret = Some("reference cpp not found in compile_commands.json")
    /\ out = <<>>
    /\ bridge = None

\* the run has printed its system libraries
PastSystemLibs == pc \in {"bridge", "rerun", "prost", "done"}

\* C6: with CXX_STDLIB unset the runtime is c++_shared for a triple containing
\* `android`, c++ for one containing `apple` and stdc++ otherwise, and atomic is
\* linked exactly when the triple contains `armv7` or `androideabi`.
C6_Classifier ==
    PastSystemLibs /\ "CXX_STDLIB" \notin DOMAIN env =>
        /\ Line("cxx", "cargo:rustc-link-lib=" \o
                    (IF contains(target, "android") THEN "c++_shared"
                     ELSE IF contains(target, "apple") THEN "c++"
                     ELSE "stdc++")) \in {out[i] : i \in DOMAIN out}
        /\ "cargo:rustc-link-lib=atomic" \in Printed
               <=> (contains(target, "armv7") \/ contains(target, "androideabi"))

\* the place of a dependency in the fixed order
Rank(dep) ==
    CASE dep = "valhalla" -> 0
      [] dep = "boost" -> 1
      [] dep = "boost_filesystem" -> 2
      [] dep = "boost_system" -> 3
      [] dep = "boost_regex" -> 4
      [] dep = "boost_date_time" -> 5
      [] dep = "boost_chrono" -> 6
      [] dep = "boost_thread" -> 7
      [] dep = "lz4" -> 8
      [] dep = "protobuf" -> 9
      [] dep = "cxx" -> 10
      [] dep = "z" -> 11
      [] dep = "atomic" -> 12
      [] OTHER -> 13

\* the Boost components share the search path of the Boost library directory
Family(dep) == IF starts_with(dep, "boost") THEN "boost" ELSE dep

\* the positions of the link-search and link-library directives
DirectiveAt == {i \in DOMAIN out : IsDirective(out[i].line)}

\* C7: the directives come in the order Boost components (filesystem, system,
\* regex, date_time, chrono, thread), LZ4, Protobuf, C++ runtime, z, atomic; no
\* search path of a dependency follows a link-library directive of it; a completed
\* run ends its directives with z, or with atomic where the triple needs it.
C7_DirectiveOrder ==
    /\ \A i, j \in DirectiveAt :
          i < j =>
             /\ Rank(out[i].dep) <= Rank(out[j].dep)
             /\ Family(out[i].dep) = Family(out[j].dep) =>
                    ~(IsLinkLib(out[i].line) /\ IsLinkSearch(out[j].line))
    /\ pc = "done" =>
          LET last == CHOOSE i \in DirectiveAt : \A j \in DirectiveAt : j <= i
          IN  IF needs_atomic(target)
              THEN /\ out[last].line = "cargo:rustc-link-lib=atomic"
                   /\ out[last - 1].line = "cargo:rustc-link-lib=z"
              ELSE /\ out[last].line = "cargo:rustc-link-lib=z"
                   /\ "cargo:rustc-link-lib=atomic" \notin Printed

\* a completed run that printed a search path and a library for Boost, LZ4 and
\* Protobuf, and atomic
C7_Witness ==
    /\ pc = "done"
    /\ needs_atomic(target)
    /\ \E i, j \in DirectiveAt :
          /\ i < j
          /\ out[i].dep = "lz4" /\ IsLinkSearch(out[i].line)
          /\ out[j].dep = "lz4" /\ IsLinkLib(out[j].line)
    /\ \E i, j \in DirectiveAt :
          /\ i < j
          /\ out[i].dep = "boost" /\ IsLinkSearch(out[i].line)
          /\ out[j].dep = "boost_thread" /\ IsLinkLib(out[j].line)

\* the dependencies the Emitter resolves by discovery
Discovered == {"boost_" \o components[i] : i \in DOMAIN components} \cup {"lz4", "protobuf"}

LinkLibsOf(dep) == {i \in DOMAIN out : out[i].dep = dep /\ IsLinkLib(out[i].line)}

\* C8: in a completed run every Boost component, LZ4 and Protobuf has exactly one
\* link-library directive, the generic one where nothing was found.
C8_OneLinkPerDependency ==
    pc = "done" => \A dep \in Discovered : Cardinality(LinkLibsOf(dep)) = 1

\* the library file bound for a dependency exists and has no stem
Malformed(file) ==
    /\ IsSome(file)
    /\ exists(fs, Unwrap(file))
    /\ stem_from_lib(Unwrap(file)) = None

\* C9: a library file that exists and does not decompose into a stem still gets a
\* link-library directive with the default stem.
C9_MalformedNameFallsBack ==
    pc = "done" =>
        /\ Malformed(Unwrap(loc).lz4_lib) =>
               \E i \in LinkLibsOf("lz4") :
                   out[i].line \in {"cargo:rustc-link-lib=static=lz4", "cargo:rustc-link-lib=lz4"}
        /\ Malformed(Unwrap(loc).pb_lib) =>
               \E i \in LinkLibsOf("protobuf") :
                   out[i].line \in {"cargo:rustc-link-lib=static=" \o Unwrap(loc).pb_component,
                                    "cargo:rustc-link-lib=" \o Unwrap(loc).pb_component}

\* C10: a second run over the same environment and filesystem prints the lines
\* the first one printed.
C10_Idempotent == pc = "done" /\ run > 1 => out = prev

\* the dependency an optional variable belongs to: Boost, LZ4 and Protobuf by the
\* prefix of the name, the C++ runtime by its override; "" for every other variable
Owner(v) ==
    IF starts_with(v, "Boost_") THEN "boost"
    ELSE IF starts_with(v, "LZ4_") THEN "lz4"
    ELSE IF starts_with(v, "Protobuf_") THEN "protobuf"
    ELSE IF v = "CXX_STDLIB" THEN "cxx"
    ELSE ""

\* the environment e with the variable v removed
Without(e, v) == [n \in DOMAIN e \ {v} |-> e[n]]

\* the link-search and link-library directives among the lines texts
Directives(texts) == SelectSeq(texts, IsDirective)

\* the directives this run printed in the section of dep
PrintedFor(dep) ==
    LET mine == SelectSeq(out, LAMBDA r : r.dep = dep /\ IsDirective(r.line))
    IN  [i \in 1..Len(mine) |-> mine[i].line]

\* the orders the read_dir call of the section of dep may list its directory in
SectionListings(dep) == Listings(fs, ListingDir(dep, driver, Unwrap(loc)))

\* the directives the section of dep prints over the environment e, for each order
\* its directory may be listed in
SectionDirectives(dep, e, l) ==
    [order \in SectionListings(dep) |->
        Directives(SectionLines(dep, driver, target, e, l, fs, order))]

\* C11: once the linker configuration is printed, for every optional dependency
\* variable v that is set and every section of another dependency, the section
\* prints the same directives over the environment without v as over the
\* environment with v, whichever way its directory is listed, and what this run
\* printed for the section is what the run without v prints for it.
C11_Isolation ==
    pc = "bridge" =>
        \A v \in DOMAIN env :
            Owner(v) # "" =>
                LET removed == Without(env, v)
                    rebound == Locals(driver, target, removed)
                IN  \A k \in DOMAIN Sections :
                        Family(Sections[k]) # Owner(v) =>
                            LET with == SectionDirectives(Sections[k], env, Unwrap(loc))
                                without == SectionDirectives(Sections[k], removed, rebound)
                            IN  /\ without = with
                                /\ \E order \in DOMAIN without :
                                       PrintedFor(Sections[k]) = without[order]

\* LZ4_DIR and Boost_LIBRARY_DIR are set, the run printed the directives of Boost
\* and of LZ4, and without LZ4_DIR the LZ4 section prints other directives
C11_Witness ==
    /\ pc = "bridge"
    /\ "LZ4_DIR" \in DOMAIN env
    /\ "Boost_LIBRARY_DIR" \in DOMAIN env
    /\ PrintedFor("boost_thread") # <<>>
    /\ PrintedFor("lz4") # <<>>
    /\ LET removed == Without(env, "LZ4_DIR")
           without == SectionDirectives("lz4", removed, Locals(driver, target, removed))
       IN  \A order \in DOMAIN without : PrintedFor("lz4") # without[order]

\* the base names the Environment Resolver is asked for
ResolverBases ==
    { "Boost_ROOT", "Boost_INCLUDE_DIR", "Boost_LIBRARY_DIR",
      "Protobuf_DIR", "Protobuf_INCLUDE_DIR", "Protobuf_LIBRARY", "Protobuf_LIBRARIES",
      "LZ4_DIR", "LZ4_INCLUDE_DIR", "LZ4_LIBRARY" }

\* the names a driver may resolve from: each base name and its triple-suffixed variant, the
\* Protobuf compiler variables, the C++ runtime override, the policy flag and both
\* prefix-path variables; and the Protobuf component variable of android.rs
ResolutionNames(triple_us) ==
    ResolverBases \cup { b \o "_" \o triple_us : b \in ResolverBases }
    \cup { "Protobuf_PROTOC_EXECUTABLE", "PROTOC", "CXX_STDLIB", "ANDROID_PREFER_DYNAMIC",
           "CMAKE_PREFIX_PATH", "CMAKE_PREFIX_PATH_" \o triple_us, "PROTOBUF_COMPONENT" }

\* what the resolution logic of this driver makes of the environment e
Resolution(e) ==
    << Locals(driver, target, e), cxx_stdlib(driver, target, e), prefer_dynamic(driver, e) >>

\* this driver reads the variable n: setting it changes what the driver resolves
CanRead(n) ==
    \E value \in {"/v", "1"} : Resolution(EnvOf({<<n, value>>})) # Resolution(EnvOf({}))

\* C12: a completed run has printed cargo:rerun-if-env-changed=<name> for every
\* one of these names that the driver can read.
C12_RerunDeclared ==
    pc = "done" =>
        \A n \in ResolutionNames(Unwrap(loc).triple_us) :
            CanRead(n) => add_rerun_env(n) \in Printed

\* a completed run of android.rs that resolved Boost through the triple-suffixed
\* variable and declared it, the generic one and the policy flag
C12_Witness ==
    /\ pc = "done"
    /\ driver = "build"
    /\ SetNonEmpty("Boost_LIBRARY_DIR_" \o Unwrap(loc).triple_us)
    /\ CanRead("Boost_LIBRARY_DIR_" \o Unwrap(loc).triple_us)
    /\ CanRead("ANDROID_PREFER_DYNAMIC")
    /\ \A n \in ResolutionNames(Unwrap(loc).triple_us) \ {"ANDROID_PREFER_DYNAMIC"} : CanRead(n)
    /\ { "cargo:rerun-if-env-changed=Boost_LIBRARY_DIR_" \o Unwrap(loc).triple_us,
         "cargo:rerun-if-env-changed=Boost_LIBRARY_DIR",
         "cargo:rerun-if-env-changed=ANDROID_PREFER_DYNAMIC" } \subseteq Printed

\* the libraries in the directory dir whose names begin with lib<prefix>
LibrariesIn(dir, prefix) ==
    IF Normalize(dir) \in DOMAIN fs.dirs
    THEN { PathJoin(dir, n) : n \in { m \in fs.dirs[Normalize(dir)] :
               /\ starts_with(m, "lib" \o prefix)
               /\ extension(m) \in {Some("a"), Some("so")} } }
    ELSE {}

\* the artifacts the section of dep may have discovered: the configured library
\* file where it exists, else the libraries of the dependency in its directory
ArtifactsOf(dep) ==
    LET l == Unwrap(loc)
    IN  IF starts_with(dep, "boost_")
        THEN IF IsSome(l.boost_lib) THEN LibrariesIn(Unwrap(l.boost_lib), dep) ELSE {}
        ELSE IF dep = "lz4"
        THEN IF IsSome(l.lz4_lib) /\ exists(fs, Unwrap(l.lz4_lib)) THEN {Unwrap(l.lz4_lib)}
             ELSE {}
        ELSE IF IsSome(l.pb_lib)
        THEN IF exists(fs, Unwrap(l.pb_lib)) THEN {Unwrap(l.pb_lib)} ELSE {}
        ELSE IF IsSome(l.pb_dir) /\ driver = "build"
        THEN LibrariesIn(PathJoin(Unwrap(l.pb_dir), "lib"), l.pb_component)
        ELSE {}

\* the stems of the artifacts of dep whose files end in .<ext>
StemsOf(dep, ext) ==
    { Unwrap(stem_from_lib(p)) :
        p \in { q \in ArtifactsOf(dep) : extension(q) = Some(ext) /\ IsSome(stem_from_lib(q)) } }

\* C13: a link-library directive naming the stem of a discovered artifact carries
\* the kind of the artifact: static=<stem> only where lib<stem>.a was discovered,
\* <stem> alone only where lib<stem>.so was; in particular no static directive for
\* a Boost component of which the library directory holds a .so only.
C13_KindFollowsArtifact ==
    IsSome(loc) =>
        \A dep \in Discovered : \A i \in LinkLibsOf(dep) :
            \A stem \in StemsOf(dep, "a") \cup StemsOf(dep, "so") :
                /\ out[i].line = "cargo:rustc-link-lib=static=" \o stem
                       => stem \in StemsOf(dep, "a")
                /\ out[i].line = "cargo:rustc-link-lib=" \o stem
                       => stem \in StemsOf(dep, "so")

============================================================================
